---- MODULE Spec2Model ----
(***************************************************************************)
(* Model of scripts/license_checker/license_checker.py.                    *)
(*                                                                         *)
(* Text is modelled character by character: a Python str is a sequence of  *)
(* one-character strings, a file on disk is the sequence of its            *)
(* characters, and a path on disk is a sequence of names.                  *)
(***************************************************************************)
EXTENDS Integers, Sequences, FiniteSets, TLC

VARIABLES
    LICENSE,     \* module global LICENSE: the template's lines (readlines)
    CONFIGS,     \* module global CONFIGS: the list of Config records
    FIX,         \* module global FIX: a set of ErrorTypes, {} standing for False
    disk,        \* the file system: resolved path -> characters of the file
    checkers,    \* checkers[w]: Checker._reports of walker w
    reports,     \* module global reports
    reportFiles, \* the report folder: ErrorType -> paths written by writeReports
    count,       \* fix(): number of files fixed
    pc,          \* position of the run
    walker,      \* the walker the loop over walkers is at
    walk,        \* Walker._getFiles: the directories os.walk has still to yield
    result,      \* Walker._getFiles: local result
    orig,        \* history: the file system when the run started
    writes       \* history: the rewrites done, in order

vars == <<LICENSE, CONFIGS, FIX, disk, checkers, reports, reportFiles, count,
          pc, walker, walk, result, orig, writes>>

----------------------------------------------------------------------------
(* Bounds of the model *)

MaxTemplateLines == 1
MaxBodyLines == 1
MaxDepth == 2
MaxConfigs == 2

----------------------------------------------------------------------------
(* Python str and list primitives *)

NL == "\n"

Digits == {"0", "1", "2", "3", "4", "5", "6", "7", "8", "9"}

DigitVal(c) ==
    CASE c = "0" -> 0 [] c = "1" -> 1 [] c = "2" -> 2 [] c = "3" -> 3
      [] c = "4" -> 4 [] c = "5" -> 5 [] c = "6" -> 6 [] c = "7" -> 7
      [] c = "8" -> 8 [] c = "9" -> 9

Whitespace == {" ", "\t", "\n", "\r"}

\* the sequence s1 \o s2 \o ... of a sequence of sequences
RECURSIVE Flatten(_)
Flatten(ss) ==
    IF ss = <<>> THEN <<>> ELSE Head(ss) \o Flatten(Tail(ss))

\* s.strip(chars): leading and trailing characters of the set removed
RECURSIVE lstrip(_, _)
lstrip(s, chars) ==
    IF s # <<>> /\ Head(s) \in chars THEN lstrip(Tail(s), chars) ELSE s

RECURSIVE rstrip(_, _)
rstrip(s, chars) ==
    IF s # <<>> /\ s[Len(s)] \in chars
    THEN rstrip(SubSeq(s, 1, Len(s) - 1), chars)
    ELSE s

strip(s, chars) == rstrip(lstrip(s, chars), chars)

\* re.search(re.escape(sub), s): sub occurs in s
Contains(sub, s) ==
    \E i \in 0..(Len(s) - Len(sub)) : SubSeq(s, i + 1, i + Len(sub)) = sub

\* int(s) of a string of decimal digits
RECURSIVE int(_)
int(s) ==
    IF s = <<>> THEN 0
    ELSE 10 * int(SubSeq(s, 1, Len(s) - 1)) + DigitVal(s[Len(s)])

\* s.split(sep)[1] for a one-character sep that occurs in s
SplitSecond(s, sep) ==
    LET i == CHOOSE k \in 1..Len(s) :
                 s[k] = sep /\ \A j \in 1..(k - 1) : s[j] # sep
        rest == SubSeq(s, i + 1, Len(s))
        ends == {k \in 1..Len(rest) : rest[k] = sep}
        j == IF ends = {} THEN Len(rest) + 1
             ELSE CHOOSE k \in ends : \A m \in ends : k <= m
    IN  SubSeq(rest, 1, j - 1)

\* mutant of remove: the last item equal to x is removed
remove_last(buffer, x) ==
    LET i == CHOOSE k \in 1..Len(buffer) :
                 buffer[k] = x /\ \A j \in (k + 1)..Len(buffer) : buffer[j] # x
    IN  SubSeq(buffer, 1, i - 1) \o SubSeq(buffer, i + 1, Len(buffer))

\* list.remove(x): the list without the first item equal to x
remove(buffer, x) ==
    LET i == CHOOSE k \in 1..Len(buffer) :
                 buffer[k] = x /\ \A j \in 1..(k - 1) : buffer[j] # x
    IN  SubSeq(buffer, 1, i - 1) \o SubSeq(buffer, i + 1, Len(buffer))

\* file.readlines(): the lines of the text, each with its line ending
readlines(text) ==
    LET ends == {i \in 1..Len(text) : text[i] = NL \/ i = Len(text)}
        endOf(k) == CHOOSE e \in ends : Cardinality({x \in ends : x <= e}) = k
    IN  [k \in 1..Cardinality(ends) |->
            SubSeq(text, IF k = 1 THEN 1 ELSE endOf(k - 1) + 1, endOf(k))]

\* file.writelines(lines): the strings written one after the other
writelines(lines) == Flatten(lines)

----------------------------------------------------------------------------
(* ErrorType and Report *)

INVALID_LICENSE == "INVALID_LICENSE"
NO_LICENSE == "NO_LICENSE"
OUTDATED == "OUTDATED"
LEN_MISMATCH == "LEN_MISMATCH"

ErrorType == {INVALID_LICENSE, NO_LICENSE, OUTDATED, LEN_MISMATCH}

Report(pathToFile, errorType, message) ==
    [pathToFile |-> pathToFile, errorType |-> errorType, message |-> message]

----------------------------------------------------------------------------
(* getLicense and Checker *)

getLicense(start, prefix, end) ==
    <<start>>
    \o [k \in 1..Len(LICENSE) |->
            IF LICENSE[k] = <<NL>> THEN prefix
            ELSE prefix \o <<" ">> \o strip(LICENSE[k], Whitespace)]
    \o <<prefix, end>>

Checker_getLicense(config) ==
    getLicense(config.startMultiComm, config.prefix, config.endMultiComm)

_checkLine(line, prefix) == Contains(prefix, line)

\* mutant of findFrom: a blank line inside an opened block ends the scan
RECURSIVE findFrom_blankEnds(_, _, _, _)
findFrom_blankEnds(config, lines, k, isStarted) ==
    IF k > Len(lines) THEN <<>>
    ELSE IF lines[k] = <<NL>>
         THEN IF isStarted THEN <<>>
              ELSE findFrom_blankEnds(config, lines, k + 1, isStarted)
    ELSE IF _checkLine(lines[k], config.startMultiComm)
         THEN <<k>> \o findFrom_blankEnds(config, lines, k + 1, TRUE)
    ELSE IF _checkLine(lines[k], config.endMultiComm) THEN <<k>>
    ELSE IF isStarted
         THEN <<k>> \o findFrom_blankEnds(config, lines, k + 1, isStarted)
    ELSE <<>>

\* The loop of findLicense from lines[k] on: the indices of the lines it
\* appends to result.
RECURSIVE findFrom(_, _, _, _)
findFrom(config, lines, k, isStarted) ==
    IF k > Len(lines) THEN <<>>
    ELSE IF lines[k] = <<NL>> THEN findFrom(config, lines, k + 1, isStarted)
    ELSE IF _checkLine(lines[k], config.startMultiComm)
         THEN <<k>> \o findFrom(config, lines, k + 1, TRUE)
    ELSE IF _checkLine(lines[k], config.endMultiComm) THEN <<k>>
    ELSE IF isStarted THEN <<k>> \o findFrom(config, lines, k + 1, isStarted)
    ELSE <<>>

findLicense(config, lines) ==
    LET found == findFrom(config, lines, 1, FALSE)
    IN  [k \in 1..Len(found) |-> lines[found[k]]]

\* re.search(r'\d\d\d\d\-\d\d\d\d', s): the first match, <<>> for None
DateAt(s, i) ==
    /\ i + 8 <= Len(s)
    /\ \A k \in {0, 1, 2, 3, 5, 6, 7, 8} : s[i + k] \in Digits
    /\ s[i + 4] = "-"

searchDate(s) ==
    LET at == {i \in 1..Len(s) : DateAt(s, i)}
    IN  IF at = {} THEN <<>>
        ELSE LET i == CHOOSE k \in at : \A m \in at : k <= m
             IN  SubSeq(s, i, i + 8)

\* mutant of lenMismatch: only a header that is too short is a mismatch
lenMismatch_shorter(license, test) == Len(license) > Len(test)

\* len(license) != len(test)
lenMismatch(license, test) == Len(license) # Len(test)

\* mutant of isOutdated: <= for <
isOutdated_orEqual(testDate, licenseDate) ==
    int(SplitSecond(testDate, "-")) <= int(SplitSecond(licenseDate, "-"))

\* int(testLastYear) < int(licenseLastYear), the last years being the
\* second fields of the two dates split at '-'
isOutdated(testDate, licenseDate) ==
    int(SplitSecond(testDate, "-")) < int(SplitSecond(licenseDate, "-"))

_checkLicense(config, test, pathToFile) ==
    LET license == Checker_getLicense(config)
        wrong == {i \in 1..Len(license) : license[i] # strip(test[i], {NL})}
        invalidLinesCount == Cardinality(wrong)
        lastWrongLine == CHOOSE i \in wrong : \A j \in wrong : j <= i
        testDate == searchDate(test[lastWrongLine])
        licenseDate == searchDate(license[lastWrongLine])
    IN  IF lenMismatch(license, test)
        THEN Report(pathToFile, LEN_MISMATCH,
                    [text |-> "Found lines, expected",
                     found |-> Len(test), expected |-> Len(license)])
        ELSE IF invalidLinesCount = 1
        THEN IF ~(testDate # <<>> /\ licenseDate # <<>>)
             THEN Report(pathToFile, INVALID_LICENSE,
                         [text |-> "Something wrong..."])
             ELSE IF isOutdated(testDate, licenseDate)
             THEN Report(pathToFile, OUTDATED,
                         [text |-> "Found date, expected",
                          foundDate |-> testDate, expectedDate |-> licenseDate])
             ELSE Report(pathToFile, INVALID_LICENSE,
                         [text |-> "Found something similar to the date",
                          foundDate |-> testDate, expectedDate |-> licenseDate])
        ELSE Report(pathToFile, INVALID_LICENSE,
                    [text |-> "Found wrong lines out of",
                     wrongLines |-> invalidLinesCount,
                     outOf |-> Len(license)])

\* checkFile: the reports after checking the file at pathToFile, whose
\* characters are text. A Report object is always true, so the result of
\* _checkLicense is always appended.
checkFile(config, reps, pathToFile, text) ==
    LET test == findLicense(config, readlines(text))
    IN  IF test # <<>>
        THEN Append(reps, _checkLicense(config, test, pathToFile))
        ELSE Append(reps, Report(pathToFile, NO_LICENSE, [text |-> ""]))

----------------------------------------------------------------------------
(* Fixer *)

\* the license as written to a file: each line followed by '\n'
licenseLines(config) ==
    LET license == Checker_getLicense(config)
    IN  [k \in 1..Len(license) |-> license[k] \o <<NL>>]

\* _addLicense: the characters of the file after the rewrite
_addLicense(config, text) ==
    LET buffer == readlines(text)
    IN  writelines(licenseLines(config)) \o writelines(buffer)

RECURSIVE removeAll(_, _)
removeAll(buffer, oldLicense) ==
    IF oldLicense = <<>> THEN buffer
    ELSE removeAll(remove(buffer, Head(oldLicense)), Tail(oldLicense))

\* _fixLicense: the characters of the file after the rewrite
_fixLicense(config, text) ==
    LET buffer == readlines(text)
        oldLicense == findLicense(config, buffer)
    IN  writelines(licenseLines(config))
        \o writelines(removeAll(buffer, oldLicense))

----------------------------------------------------------------------------
(* os.path and os.walk. A path string is resolved against the working
   directory to the sequence of its names; the file system is the set of
   the resolved paths of its files. *)

\* s.split('/')
RECURSIVE SplitPath(_)
SplitPath(s) ==
    LET seps == {i \in 1..Len(s) : s[i] = "/"}
    IN  IF seps = {} THEN <<s>>
        ELSE LET i == CHOOSE k \in seps : \A m \in seps : k <= m
             IN  <<SubSeq(s, 1, i - 1)>> \o SplitPath(SubSeq(s, i + 1, Len(s)))

\* the names of a relative path with '', '.' and '..' resolved
RECURSIVE Collapse(_, _)
Collapse(names, done) ==
    IF names = <<>> THEN done
    ELSE IF Head(names) \in {<<>>, <<".">>} THEN Collapse(Tail(names), done)
    ELSE IF Head(names) = <<".", ".">> /\ done # <<>>
                /\ done[Len(done)] # <<".", ".">>
         THEN Collapse(Tail(names), SubSeq(done, 1, Len(done) - 1))
    ELSE Collapse(Tail(names), Append(done, Head(names)))

Resolve(path) == Collapse(SplitPath(path), <<>>)

RECURSIVE JoinNames(_)
JoinNames(names) ==
    IF Len(names) = 1 THEN names[1]
    ELSE names[1] \o <<"/">> \o JoinNames(Tail(names))

\* os.path.normpath of a relative path
normpath(path) ==
    IF Resolve(path) = <<>> THEN <<".">> ELSE JoinNames(Resolve(path))

\* os.path.join(a, b) for a name b
join(a, b) ==
    IF a = <<>> \/ a[Len(a)] = "/" THEN a \o b ELSE a \o <<"/">> \o b

\* os.path.splitext(name)[1]: from the last dot on, unless only dots lead it
splitext(name) ==
    LET dots == {i \in 1..Len(name) :
                    name[i] = "." /\ \E j \in 1..(i - 1) : name[j] # "."}
    IN  IF dots = {} THEN <<>>
        ELSE SubSeq(name, CHOOSE i \in dots : \A j \in dots : j <= i, Len(name))

\* the order in which a directory lists its entries
Names == <<<<"a", ".", "p", "y">>, <<"b", ".", "p", "y">>,
           <<"b", ".", "j", "s">>, <<"c", ".", "p", "y">>,
           <<"m">>, <<"n">>, <<"r">>>>

Listed(S) == LET In(x) == x \in S IN SelectSeq(Names, In)

Dirs == UNION {{SubSeq(p, 1, k) : k \in 0..(Len(p) - 1)} : p \in DOMAIN disk}

SubDirs(d) == Listed({p[Len(d) + 1] : p \in {q \in Dirs :
                         Len(q) = Len(d) + 1 /\ SubSeq(q, 1, Len(d)) = d}})

FilesOf(d) == Listed({p[Len(d) + 1] : p \in {q \in DOMAIN disk :
                         Len(q) = Len(d) + 1 /\ SubSeq(q, 1, Len(d)) = d}})

\* os.walk(top), top down: the (address, files) it yields, in order
RECURSIVE walkFrom(_, _)
walkFrom(address, d) ==
    LET dirs == SubDirs(d)
    IN  <<[address |-> address, files |-> FilesOf(d)]>>
        \o Flatten([k \in 1..Len(dirs) |->
                       walkFrom(join(address, dirs[k]), Append(d, dirs[k]))])

os_walk(top) ==
    IF Resolve(top) \in Dirs THEN walkFrom(top, Resolve(top)) ELSE <<>>

----------------------------------------------------------------------------
(* Walker *)

\* mutant of ignoredDirName: the name of the directory alone is looked at
ignoredDirName_ownName(config, address) ==
    \E k \in 1..Len(config.ignoreListDirName) :
       Contains(config.ignoreListDirName[k],
                SplitPath(address)[Len(SplitPath(address))])

\* the first loop of _getFiles breaks: address holds an ignored name
ignoredDirName(config, address) ==
    \E k \in 1..Len(config.ignoreListDirName) :
       Contains(config.ignoreListDirName[k], address)

\* the second loop of _getFiles breaks: address holds an ignored path
ignoredDir(config, address) ==
    \E k \in 1..Len(config.ignoreListDir) :
       Contains(normpath(config.ignoreListDir[k]), address)

\* the body of the loop of _getFiles: what one (address, files) appends
dirFiles(config, address, files) ==
    LET ignoredFiles == {normpath(config.ignoreListFile[k]) :
                            k \in 1..Len(config.ignoreListFile)}
        Taken(i) == /\ join(address, i) \notin ignoredFiles
                    /\ splitext(i) \in config.fileExtensions
        taken == SelectSeq(files, Taken)
    IN  IF ignoredDirName(config, address) THEN <<>>
        ELSE IF ignoredDir(config, address) THEN <<>>
        ELSE [k \in 1..Len(taken) |-> join(address, taken[k])]

_getFiles(config) ==
    LET w == os_walk(config.dir)
    IN  Flatten([k \in 1..Len(w) |-> dirFiles(config, w[k].address, w[k].files)])

\* the loop of checkFiles: the reports of the checker after files[k..]
RECURSIVE checkFrom(_, _, _, _)
checkFrom(config, reps, files, k) ==
    IF k > Len(files) THEN reps
    ELSE checkFrom(config,
                   checkFile(config, reps, files[k], disk[Resolve(files[k])]),
                   files, k + 1)

checkFiles(config, reps) == checkFrom(config, reps, _getFiles(config), 1)

----------------------------------------------------------------------------
(* Fixer.fix *)

\* mutant of fixSelected: the category of a header to replace is not
\* looked up in FIX
fixSelected_any(errorType) ==
    \/ FIX = {} /\ errorType # NO_LICENSE
    \/ errorType # NO_LICENSE

\* the condition of fix() under which _addLicense is called
addSelected(errorType) ==
    \/ FIX = {} /\ errorType = NO_LICENSE
    \/ errorType = NO_LICENSE /\ errorType \in FIX

\* the condition of fix() under which _fixLicense is called
fixSelected(errorType) ==
    \/ FIX = {} /\ errorType # NO_LICENSE
    \/ errorType # NO_LICENSE /\ errorType \in FIX

\* the loop of Fixer.fix over the reports of the checker from reps[k] on;
\* st holds the file system, the rewrites done and count
RECURSIVE fixFrom(_, _, _, _)
fixFrom(config, reps, k, st) ==
    IF k > Len(reps) THEN st
    ELSE LET report == reps[k]
             path == Resolve(report.pathToFile)
         IN  IF addSelected(report.errorType)
             THEN fixFrom(config, reps, k + 1,
                    [disk |-> [st.disk EXCEPT
                                  ![path] = _addLicense(config, @)],
                     writes |-> Append(st.writes,
                                  [path |-> path, op |-> "add",
                                   errorType |-> report.errorType]),
                     count |-> st.count + 1])
             ELSE IF fixSelected(report.errorType)
             THEN fixFrom(config, reps, k + 1,
                    [disk |-> [st.disk EXCEPT
                                  ![path] = _fixLicense(config, @)],
                     writes |-> Append(st.writes,
                                  [path |-> path, op |-> "fix",
                                   errorType |-> report.errorType]),
                     count |-> st.count + 1])
             ELSE fixFrom(config, reps, k + 1, st)

----------------------------------------------------------------------------
(* Inputs *)

Config(dir, fileExtensions, style, ignoreListDir, ignoreListDirName, ignoreListFile) ==
    [dir |-> dir, fileExtensions |-> fileExtensions,
     startMultiComm |-> style.start, endMultiComm |-> style.end,
     prefix |-> style.prefix, ignoreListDir |-> ignoreListDir,
     ignoreListDirName |-> ignoreListDirName,
     ignoreListFile |-> ignoreListFile]

\* comment styles: C-like tokens; an empty prefix (the default of Config);
\* one token for start, prefix and end
CStyle == [start |-> <<"/", "*">>, prefix |-> <<"*">>, end |-> <<"*", "/">>]
NoPrefixStyle == [start |-> <<"<", "!">>, prefix |-> <<>>, end |-> <<"!", ">">>]
HashStyle == [start |-> <<"#">>, prefix |-> <<"#">>, end |-> <<"#">>]

Styles == {CStyle, NoPrefixStyle, HashStyle}

Year2024 == <<"2", "0", "2", "0", "-", "2", "0", "2", "4">>
Year2023 == <<"2", "0", "2", "0", "-", "2", "0", "2", "3">>
Year2025 == <<"2", "0", "2", "0", "-", "2", "0", "2", "5">>
From2019 == <<"2", "0", "1", "9", "-", "2", "0", "2", "4">>

\* lines of a license template: a copyright line, a blank line, a text line
\* with blanks around it
TemplateLines == {Year2024 \o <<NL>>, <<NL>>, <<" ", "x", " ", NL>>}

SeqsUpTo(S, n) == UNION {[1..k -> S] : k \in 0..n}

Templates == SeqsUpTo(TemplateLines, MaxTemplateLines) \ {<<>>}

\* lines a file may hold, for a comment style
HeaderPool(style) ==
    {style.start \o <<NL>>, style.end \o <<NL>>, style.prefix \o <<NL>>,
     style.start \o style.end \o <<NL>>}
    \cup {style.prefix \o <<" ">> \o y \o <<NL>> :
             y \in {Year2024, Year2023, Year2025, From2019}}
    \cup {<<"x", NL>>, <<NL>>}

BodyPool(style) ==
    {<<"x", NL>>, <<NL>>, <<"y">>, style.end \o <<NL>>,
     style.prefix \o <<" ">> \o Year2024 \o <<NL>>}

\* a list with one line replaced, dropped or inserted
Edits(lines, pool) ==
    {lines}
    \cup {[lines EXCEPT ![i] = l] : i \in 1..Len(lines), l \in pool}
    \cup {SubSeq(lines, 1, i - 1) \o SubSeq(lines, i + 1, Len(lines)) :
             i \in 1..Len(lines)}
    \cup {SubSeq(lines, 1, i - 1) \o <<l>> \o SubSeq(lines, i, Len(lines)) :
             i \in 1..(Len(lines) + 1), l \in pool}

\* the files of the model for a style and a header: nothing or the header
\* with at most one edit, and then up to MaxBodyLines more lines
FileTexts(style, header) ==
    {writelines(h \o b) :
        h \in {<<>>} \cup Edits(header, HeaderPool(style)),
        b \in SeqsUpTo(BodyPool(style), MaxBodyLines)}

PY == <<".", "p", "y">>
JS == <<".", "j", "s">>
APy == <<"a", ".", "p", "y">>
BPy == <<"b", ".", "p", "y">>
BJs == <<"b", ".", "j", "s">>
CPy == <<"c", ".", "p", "y">>

Plain == <<"x", NL>>

\* the one file of the claims about one file: its path, and the path resolved
TheFile == join(<<"r">>, APy)
ThePath == Resolve(TheFile)

----------------------------------------------------------------------------
(* One file under one Checker and Fixer: checkFile, then one of the two
   rewrites of Fixer, then checkFile again *)

FileInit ==
    /\ LICENSE \in Templates
    /\ \E style \in Styles :
          /\ CONFIGS = <<Config(<<"r">>, {PY}, style, <<>>, <<>>, <<>>)>>
          /\ \E text \in FileTexts(style, licenseLines(CONFIGS[1])) :
                disk = (ThePath :> text)
    /\ FIX = {}
    /\ checkers = <<<<>>>>
    /\ reports = <<>>
    /\ reportFiles = <<>>
    /\ count = 0
    /\ pc = "new"
    /\ walker = 1
    /\ walk = <<>>
    /\ result = <<>>
    /\ orig = disk
    /\ writes = <<>>

FileCheck ==
    /\ pc \in {"new", "rewritten"}
    /\ checkers' = [checkers EXCEPT
                       ![1] = checkFile(CONFIGS[1], @, TheFile, disk[ThePath])]
    /\ pc' = IF pc = "new" THEN "checked" ELSE "rechecked"
    /\ UNCHANGED <<LICENSE, CONFIGS, FIX, disk, reports, reportFiles, count,
                   walker, walk, result, orig, writes>>

FileAdd ==
    /\ pc = "checked"
    /\ disk' = [disk EXCEPT ![ThePath] = _addLicense(CONFIGS[1], @)]
    /\ writes' = Append(writes, [path |-> ThePath, op |-> "add",
                                 errorType |-> checkers[1][1].errorType])
    /\ pc' = "rewritten"
    /\ UNCHANGED <<LICENSE, CONFIGS, FIX, checkers, reports, reportFiles,
                   count, walker, walk, result, orig>>

FileFix ==
    /\ pc = "checked"
    /\ disk' = [disk EXCEPT ![ThePath] = _fixLicense(CONFIGS[1], @)]
    /\ writes' = Append(writes, [path |-> ThePath, op |-> "fix",
                                 errorType |-> checkers[1][1].errorType])
    /\ pc' = "rewritten"
    /\ UNCHANGED <<LICENSE, CONFIGS, FIX, checkers, reports, reportFiles,
                   count, walker, walk, result, orig>>

FileNext == FileCheck \/ FileAdd \/ FileFix

FileSpec == FileInit /\ [][FileNext]_vars

----------------------------------------------------------------------------
(* Walker._getFiles over a tree of directories, one directory of os.walk
   at a step, and then the rest of checkFiles *)

\* every directory down to MaxDepth below r, each with the same two files
TreeFiles ==
    {<<<<"r">>>> \o d \o <<f>> :
        d \in SeqsUpTo({<<"m">>, <<"n">>}, MaxDepth), f \in {APy, BJs}}

WalkRoots == {<<"r">>, <<"r", "/">>, <<".", "/", "r">>, <<"r", "/", "n">>}

IgnoreDirNames ==
    {<<>>, <<<<"n">>>>, <<<<"m">>>>, <<<<"m">>, <<"n">>>>,
     <<<<"n", "/", "m">>>>}

IgnoreDirs ==
    {<<>>, <<<<"r", "/", "m", "/">>>>, <<<<".", "/", "r", "/", "n">>>>}

IgnoreFiles ==
    {<<>>, <<<<"r", "/", "/", "a", ".", "p", "y">>>>,
     <<<<"r", "/", "m", "/", "a", ".", "p", "y">>>>}

WalkInit ==
    /\ LICENSE = <<Year2024 \o <<NL>>>>
    /\ disk = [p \in TreeFiles |-> Plain]
    /\ \E dir \in WalkRoots, exts \in {{PY}, {PY, JS}},
          names \in IgnoreDirNames, dirs \in IgnoreDirs, files \in IgnoreFiles :
          CONFIGS = <<Config(dir, exts, CStyle, dirs, names, files)>>
    /\ FIX = {}
    /\ checkers = <<<<>>>>
    /\ reports = <<>>
    /\ reportFiles = <<>>
    /\ count = 0
    /\ pc = "walking"
    /\ walker = 1
    /\ walk = os_walk(CONFIGS[1].dir)
    /\ result = <<>>
    /\ orig = disk
    /\ writes = <<>>

WalkStep ==
    /\ pc = "walking"
    /\ walk # <<>>
    /\ result' = result \o dirFiles(CONFIGS[1], Head(walk).address,
                                    Head(walk).files)
    /\ walk' = Tail(walk)
    /\ UNCHANGED <<LICENSE, CONFIGS, FIX, disk, checkers, reports,
                   reportFiles, count, pc, walker, orig, writes>>

WalkCheck ==
    /\ pc = "walking"
    /\ walk = <<>>
    /\ checkers' = [checkers EXCEPT
                       ![1] = checkFrom(CONFIGS[1], @, result, 1)]
    /\ pc' = "walked"
    /\ UNCHANGED <<LICENSE, CONFIGS, FIX, disk, reports, reportFiles, count,
                   walker, walk, result, orig, writes>>

WalkNext == WalkStep \/ WalkCheck

WalkSpec == WalkInit /\ [][WalkNext]_vars

----------------------------------------------------------------------------
(* The run of the script: the check pass over the walkers, the reports,
   the question, the fix pass over the walkers *)

CText(year) ==
    Flatten(<<CStyle.start \o <<NL>>,
              CStyle.prefix \o <<" ">> \o year \o <<NL>>,
              CStyle.prefix \o <<NL>>, CStyle.end \o <<NL>>>>)

\* what a file of the run may hold: no header, the header of CStyle, that
\* header with an older year, a header that is not closed
Contents ==
    {Plain, CText(Year2024) \o Plain, CText(Year2023) \o Plain,
     CStyle.start \o <<NL>> \o Plain}

RunFiles == {<<<<"r">>, APy>>, <<<<"r">>, BPy>>, <<<<"r">>, <<"n">>, CPy>>}

RunConfigs ==
    {Config(<<"r">>, {PY}, CStyle, <<>>, <<>>, <<>>),
     Config(<<".", "/", "r">>, {PY}, CStyle, <<>>, <<<<"n">>>>, <<>>),
     Config(<<"r", "/", "n">>, {PY}, HashStyle, <<>>, <<>>, <<>>),
     Config(<<"r">>, {JS}, CStyle, <<>>, <<>>, <<>>)}

FixSets == {{}, {OUTDATED}, {NO_LICENSE}, {INVALID_LICENSE, LEN_MISMATCH}}

Init ==
    /\ LICENSE = <<Year2024 \o <<NL>>>>
    /\ CONFIGS \in SeqsUpTo(RunConfigs, MaxConfigs) \ {<<>>}
    /\ FIX \in FixSets
    /\ disk \in [RunFiles -> Contents]
    /\ checkers = [w \in 1..Len(CONFIGS) |-> <<>>]
    /\ reports = <<>>
    /\ reportFiles = <<>>
    /\ count = 0
    /\ pc = "check"
    /\ walker = 1
    /\ walk = <<>>
    /\ result = <<>>
    /\ orig = disk
    /\ writes = <<>>

\* for walker in walkers: reports = reports + walker.checkFiles()
CheckFiles ==
    /\ pc = "check"
    /\ walker <= Len(CONFIGS)
    /\ checkers' = [checkers EXCEPT ![walker] = checkFiles(CONFIGS[walker], @)]
    /\ reports' = reports \o checkers'[walker]
    /\ walker' = walker + 1
    /\ UNCHANGED <<LICENSE, CONFIGS, FIX, disk, reportFiles, count, pc, walk,
                   result, orig, writes>>

\* if reports: writeReports(reports), then fix or ask
WriteReports ==
    /\ pc = "check"
    /\ walker > Len(CONFIGS)
    /\ reports # <<>>
    /\ reportFiles' =
          [t \in ErrorType |->
              LET Of(r) == r.errorType = t
                  of == SelectSeq(reports, Of)
              IN  [k \in 1..Len(of) |-> of[k].pathToFile]]
    /\ pc' = IF FIX # {} THEN "fix" ELSE "ask"
    /\ walker' = 1
    /\ UNCHANGED <<LICENSE, CONFIGS, FIX, disk, checkers, reports, count,
                   walk, result, orig, writes>>

\* else: print('All licenses are ok.')
AllOk ==
    /\ pc = "check"
    /\ walker > Len(CONFIGS)
    /\ reports = <<>>
    /\ pc' = "ok"
    /\ UNCHANGED <<LICENSE, CONFIGS, FIX, disk, checkers, reports,
                   reportFiles, count, walker, walk, result, orig, writes>>

\* choice = input('Fix it automatically? [Y/N] ')
Ask ==
    /\ pc = "ask"
    /\ \E choice \in {"y", "n"} : pc' = IF choice = "y" THEN "fix" ELSE "declined"
    /\ UNCHANGED <<LICENSE, CONFIGS, FIX, disk, checkers, reports,
                   reportFiles, count, walker, walk, result, orig, writes>>

\* fix(): for walker in walkers: count += Fixer(walker).fix()
FixWalker ==
    /\ pc = "fix"
    /\ walker <= Len(CONFIGS)
    /\ LET st == fixFrom(CONFIGS[walker], checkers[walker], 1,
                         [disk |-> disk, writes |-> writes, count |-> count])
       IN  /\ disk' = st.disk
           /\ writes' = st.writes
           /\ count' = st.count
    /\ walker' = walker + 1
    /\ UNCHANGED <<LICENSE, CONFIGS, FIX, checkers, reports, reportFiles, pc,
                   walk, result, orig>>

\* fix(): print(f'Fixed {count} files.')
FixDone ==
    /\ pc = "fix"
    /\ walker > Len(CONFIGS)
    /\ pc' = "done"
    /\ UNCHANGED <<LICENSE, CONFIGS, FIX, disk, checkers, reports,
                   reportFiles, count, walker, walk, result, orig, writes>>

Next == CheckFiles \/ WriteReports \/ AllOk \/ Ask \/ FixWalker \/ FixDone

Spec == Init /\ [][Next]_vars

----------------------------------------------------------------------------
(* What the claims about one file speak of *)

TheConfig == CONFIGS[1]
Expected == Checker_getLicense(TheConfig)
OrigLines == readlines(orig[ThePath])
Extracted == findLicense(TheConfig, OrigLines)
FirstReport == checkers[1][1]

HasStart(line) == Contains(TheConfig.startMultiComm, line)
HasEnd(line) == Contains(TheConfig.endMultiComm, line)

\* the positions where an extracted header differs from the expected one
Differing(expected, test) ==
    {i \in 1..Len(expected) : expected[i] # strip(test[i], {NL})}

\* a year range: four digits, a hyphen, four digits
YearRangeAt(s, i) ==
    /\ i >= 1 /\ i + 8 <= Len(s)
    /\ s[i + 4] = "-"
    /\ \A k \in (i..(i + 3)) \cup ((i + 5)..(i + 8)) : s[k] \in Digits

HasYearRange(s) == \E i \in 1..Len(s) : YearRangeAt(s, i)

\* where the first year range of s starts
FirstYearRange(s) ==
    CHOOSE k \in 1..Len(s) :
       YearRangeAt(s, k) /\ \A j \in 1..(k - 1) : ~YearRangeAt(s, j)

\* the second year of the first year range of s
SecondYear(s) ==
    LET i == FirstYearRange(s)
    IN  1000 * DigitVal(s[i + 5]) + 100 * DigitVal(s[i + 6])
        + 10 * DigitVal(s[i + 7]) + DigitVal(s[i + 8])

YearRangeOf(s) == SubSeq(s, FirstYearRange(s), FirstYearRange(s) + 8)

\* the extracted line is an older copy of the expected line
Older(testLine, expectedLine) ==
    /\ HasYearRange(testLine)
    /\ HasYearRange(expectedLine)
    /\ SecondYear(testLine) < SecondYear(expectedLine)

\* the first line of a file that is not blank, 0 when there is none
FirstNonBlank(lines) ==
    LET nb == {i \in 1..Len(lines) : lines[i] # <<NL>>}
    IN  IF nb = {} THEN 0 ELSE CHOOSE i \in nb : \A j \in nb : i <= j

\* the header is opened: the first line that is not blank holds startToken
Opened(lines) ==
    FirstNonBlank(lines) # 0 /\ HasStart(lines[FirstNonBlank(lines)])

\* the lines after the opening one that hold endToken
EndLines(lines) ==
    {i \in (FirstNonBlank(lines) + 1)..Len(lines) : HasEnd(lines[i])}

\* the header is opened and no line of the file closes it
Unterminated(lines) ==
    Opened(lines) /\ \A i \in 1..Len(lines) : ~HasEnd(lines[i])

\* the lines of a list from position k on that are not dropped, in order
RECURSIVE KeepFrom(_, _, _)
KeepFrom(lines, dropped, k) ==
    IF k > Len(lines) THEN <<>>
    ELSE (IF k \in dropped THEN <<>> ELSE <<lines[k]>>)
         \o KeepFrom(lines, dropped, k + 1)

\* the positions of the lines findLicense returns
ExtractedAt(lines) ==
    LET found == findFrom(TheConfig, lines, 1, FALSE)
    IN  {found[k] : k \in 1..Len(found)}

----------------------------------------------------------------------------
(* Claims about one file *)

\* C1: a file whose extracted header has as many lines as the expected
\* header and equals it line for line gets no Finding from checkFile.
C1_MatchingHeaderNoFinding ==
    pc = "checked"
    => LET test == Extracted
           expected == Expected
       IN  (test # <<>> /\ Len(test) = Len(expected)
               /\ Differing(expected, test) = {})
           => checkers[1] = <<>>

\* C2: a file classified NoHeader, rewritten by _addLicense and checked
\* again, gets no Finding from the second check.
C2_AddThenCheckPasses ==
    (pc = "rechecked" /\ writes[1].op = "add"
        /\ FirstReport.errorType = NO_LICENSE)
    => Len(checkers[1]) = 1

\* C3: for an extracted header of the expected length the category is
\* Outdated exactly when one position differs, both lines there hold a year
\* range and the extracted second year is less than the expected one, the
\* detail then being the two dates; any other single difference is
\* InvalidHeader.
C3_OutdatedIff ==
    pc = "checked"
    => LET test == Extracted
           expected == Expected
           report == FirstReport
       IN  (test # <<>> /\ Len(test) = Len(expected))
           => LET differing == Differing(expected, test)
                  older == \E i \in differing :
                              /\ differing = {i}
                              /\ Older(test[i], expected[i])
              IN  /\ report.errorType = OUTDATED <=> older
                  /\ report.errorType = OUTDATED
                       => \E i \in differing :
                             /\ report.message.foundDate = YearRangeOf(test[i])
                             /\ report.message.expectedDate
                                   = YearRangeOf(expected[i])
                  /\ (Cardinality(differing) = 1 /\ ~older)
                       => report.errorType = INVALID_LICENSE

C3_Witness ==
    /\ pc = "checked"
    /\ Len(Extracted) = Len(Expected)
    /\ FirstReport.errorType = OUTDATED
    /\ FirstReport.message.foundDate = Year2023
    /\ FirstReport.message.expectedDate = Year2024

\* C5: an extracted header whose number of lines differs from the expected
\* one is LengthMismatch whatever its lines hold, the detail giving both
\* lengths.
C5_LengthMismatch ==
    pc = "checked"
    => LET test == Extracted
           expected == Expected
           report == FirstReport
       IN  (test # <<>> /\ Len(test) # Len(expected))
           => /\ report.errorType = LEN_MISMATCH
              /\ report.message.found = Len(test)
              /\ report.message.expected = Len(expected)

\* a header longer than expected, one of its lines holding a year range
C5_Witness ==
    /\ pc = "checked"
    /\ FirstReport.errorType = LEN_MISMATCH
    /\ LET test == Extracted
       IN  /\ Len(test) > Len(Expected)
           /\ \E i \in 1..Len(test) : HasYearRange(test[i])

\* C7: once a line holding startToken has opened the block, findLicense
\* returns the contiguous lines of the file from that line to the first
\* later line holding endToken.
C7_ContiguousSlice ==
    pc = "checked"
    => LET lines == OrigLines
       IN  (Opened(lines) /\ EndLines(lines) # {})
           => Extracted
                 = SubSeq(lines, FirstNonBlank(lines),
                          CHOOSE e \in EndLines(lines) :
                             \A j \in EndLines(lines) : e <= j)

\* C8 as stated: a header that is opened and never closed is
\* LengthMismatch.
C8_UnterminatedIsLengthMismatch ==
    (pc = "checked" /\ Unterminated(OrigLines))
    => FirstReport.errorType = LEN_MISMATCH

\* C8 as amended: a header that is opened and never closed yields the lines
\* from the opening one to the end of the file that are not blank, and one
\* Finding: LengthMismatch when their number differs from the expected one,
\* InvalidHeader or Outdated when it does not; never NoHeader, never a pass.
C8_Unterminated ==
    pc = "checked"
    => LET lines == OrigLines
           test == Extracted
           expected == Expected
       IN  Unterminated(lines)
           => /\ test = KeepFrom(lines,
                                 {i \in 1..Len(lines) : lines[i] = <<NL>>},
                                 FirstNonBlank(lines))
              /\ Len(checkers[1]) = 1
              /\ Len(test) # Len(expected)
                   => FirstReport.errorType = LEN_MISMATCH
              /\ Len(test) = Len(expected)
                   => FirstReport.errorType \in {INVALID_LICENSE, OUTDATED}

\* an unterminated header with a blank line in it and as many other lines
\* as the expected header
C8_Witness ==
    /\ pc = "checked"
    /\ FirstReport.errorType = INVALID_LICENSE
    /\ LET lines == OrigLines
       IN  /\ Unterminated(lines)
           /\ \E i \in 1..Len(lines) :
                 i > FirstNonBlank(lines) /\ lines[i] = <<NL>>
           /\ Len(Extracted) = Len(Expected)

\* C9: after _fixLicense the file is the expected header, each line with a
\* newline, and then the original lines without the ones findLicense
\* returned, removed at their own positions.
C9_FixRemovesExtracted ==
    (pc = "rewritten" /\ writes[1].op = "fix")
    => LET lines == OrigLines
           kept == KeepFrom(lines, ExtractedAt(lines), 1)
           header == licenseLines(TheConfig)
       IN  /\ readlines(disk[ThePath]) = header \o kept
           /\ disk[ThePath] = Flatten(header) \o Flatten(kept)

\* a line that is kept equals a line that is removed
C9_Witness ==
    /\ pc = "rewritten" /\ writes[1].op = "fix"
    /\ LET lines == OrigLines
           at == ExtractedAt(lines)
       IN  \E i \in at :
              \E j \in 1..Len(lines) : j \notin at /\ lines[j] = lines[i]

----------------------------------------------------------------------------
(* Claims about the walker *)

\* the path of a directory holds one of the ignored directory names
MatchesIgnoredName(address) ==
    \E k \in 1..Len(CONFIGS[1].ignoreListDirName) :
       \E i \in 0..Len(address) :
          LET name == CONFIGS[1].ignoreListDirName[k]
          IN  /\ i + Len(name) <= Len(address)
              /\ \A j \in 1..Len(name) : address[i + j] = name[j]

\* file path f lies below directory d, both resolved
Below(f, d) == Len(d) < Len(f) /\ SubSeq(f, 1, Len(d)) = d

Walked == LET w == os_walk(CONFIGS[1].dir) IN {w[k] : k \in 1..Len(w)}

\* C6: _getFiles yields no file below a directory whose path holds an
\* ignored directory name, however deep below it the file lies.
C6_NothingBelowIgnoredName ==
    result # <<>>
    => LET walked == Walked
       IN  \A k \in 1..Len(result) :
              \A e \in walked :
                 Below(Resolve(result[k]), Resolve(e.address))
                 => ~MatchesIgnoredName(e.address)

\* the walk is over, files were yielded, and a directory below an ignored
\* one, whose own name is not ignored, holds a file that would be taken
C6_Witness ==
    /\ pc = "walked"
    /\ result # <<>>
    /\ LET walked == Walked IN \E e0 \in walked, e \in walked :
          /\ MatchesIgnoredName(e0.address)
          /\ Below(Resolve(e.address), Resolve(e0.address))
          /\ ~\E k \in 1..Len(CONFIGS[1].ignoreListDirName) :
                Contains(CONFIGS[1].ignoreListDirName[k],
                         Resolve(e.address)[Len(Resolve(e.address))])
          /\ ~ignoredDir(CONFIGS[1], e.address)
          /\ \E i \in 1..Len(e.files) :
                /\ splitext(e.files[i]) \in CONFIGS[1].fileExtensions
                /\ \A j \in 1..Len(CONFIGS[1].ignoreListFile) :
                      normpath(CONFIGS[1].ignoreListFile[j])
                         # join(e.address, e.files[i])

----------------------------------------------------------------------------
(* Claims about the run *)

Findings == {reports[k] : k \in 1..Len(reports)}

Rewritten == {writes[k].path : k \in 1..Len(writes)}

\* the files with a Finding of a category the fix pass is to fix
Selected ==
    {Resolve(r.pathToFile) : r \in {q \in Findings :
                                       FIX = {} \/ q.errorType \in FIX}}

\* C4: the fix pass rewrites the files with a Finding of a category of the
\* auto-fix set and leaves every other file as it was; with no auto-fix set
\* and the user's yes it rewrites every file with a Finding; a NoHeader
\* Finding is fixed by prepending, any other by replacing.
C4_FixSelection ==
    pc = "done"
    => /\ Rewritten = Selected
       /\ \A p \in DOMAIN disk : p \notin Selected => disk[p] = orig[p]
       /\ \A k \in 1..Len(writes) :
             writes[k].op = IF writes[k].errorType = NO_LICENSE
                            THEN "add" ELSE "fix"

\* the auto-fix set is {Outdated}: a file with an Outdated Finding was
\* rewritten, a file with a NoHeader Finding was not
C4_Witness ==
    /\ pc = "done"
    /\ FIX = {OUTDATED}
    /\ \E r \in Findings :
          r.errorType = OUTDATED /\ Resolve(r.pathToFile) \in Rewritten
    /\ \E r \in Findings :
          /\ r.errorType = NO_LICENSE
          /\ Resolve(r.pathToFile) \notin Rewritten
          /\ disk[Resolve(r.pathToFile)] = orig[Resolve(r.pathToFile)]

\* C10: whatever the roots, the fix pass rewrites a file at most once, and a
\* file that was NoHeader and was to be fixed holds afterwards one expected
\* header and then what it held.
C10_RewrittenOnce ==
    pc = "done"
    => /\ \A p \in DOMAIN disk :
             Cardinality({k \in 1..Len(writes) : writes[k].path = p}) <= 1
       /\ \A w \in 1..Len(CONFIGS) :
             \A k \in 1..Len(checkers[w]) :
                LET r == checkers[w][k]
                IN  (r.errorType = NO_LICENSE /\ (FIX = {} \/ NO_LICENSE \in FIX))
                    => disk[Resolve(r.pathToFile)]
                          = Flatten(licenseLines(CONFIGS[w]))
                            \o orig[Resolve(r.pathToFile)]

====
